---- MODULE Spec2Model ----
(***************************************************************************)
(* Model of the interactive line editor of the shell (src/main.cpp):       *)
(* readline(), find_completion(), test() and the REPL loop of main().      *)
(* Characters are their byte codes; a string is a sequence of byte codes.  *)
(* The terminal is one row of cells plus a cursor column: a printed        *)
(* character overwrites the cell under the cursor and advances it, "\b"    *)
(* moves the cursor one cell to the left (not past column 0), endl starts  *)
(* a fresh row.                                                            *)
(***************************************************************************)
EXTENDS Integers, Sequences, FiniteSets, TLC

\* ------------------------------------------------------------------ bounds
\* A run holds at most MaxKeys key presses, over all its sessions.
MaxKeys == 5

\* ------------------------------------------------------- character codes
BS == 8
TAB == 9
CR == 13
DEL == 127
CTRL_D == 4
SPACE == 32
PRINT_LO == 32
PRINT_HI == 126
ESC_NEG == -32
ESC_POS == 224
K_UP == 72
K_DOWN == 80
K_LEFT == 75
K_RIGHT == 77
K_DELETE == 83
NO_INDEX == -1
EXIT_CTRL_D == 1

\* "$ "
PROMPT == <<36, 32>>

\* {"history", "cat", "ls", "echo", "type", "exit", "pwd", "cd"}
commands ==
    << <<104, 105, 115, 116, 111, 114, 121>>, <<99, 97, 116>>, <<108, 115>>,
       <<101, 99, 104, 111>>, <<116, 121, 112, 101>>, <<101, 120, 105, 116>>,
       <<112, 119, 100>>, <<99, 100>> >>

\* What readdir() yields for the current directory, in order:
\* ".", "..", ".cl", "clc", "history.txt"
DirEntries ==
    << <<46>>, <<46, 46>>, <<46, 99, 108>>, <<99, 108, 99>>,
       <<104, 105, 115, 116, 111, 114, 121, 46, 116, 120, 116>> >>

\* The printable characters the user types: ' ', 'c', 'l'.
Chars == {32, 99, 108}

\* The byte sequences the console delivers for one key press: Enter,
\* Backspace (both codes), Tab, Ctrl-D, the printable characters, the
\* 0xE0-prefixed extended keys (Up, Down, Left, Right, Delete, Home) and a
\* 0x00-prefixed function key (F1).
PlainKeys == {<<CR>>, <<BS>>, <<DEL>>, <<TAB>>, <<CTRL_D>>}
CharKeys == {<<c>> : c \in Chars}
ExtKeys == {<<ESC_POS, x>> : x \in {K_UP, K_DOWN, K_LEFT, K_RIGHT, K_DELETE, 71}}
FnKeys == {<<0, 59>>}

\* The history file's contents at startup are drawn from these.
\* "c l", "l", "ls"
HistInit ==
    { <<>>,
      << <<108, 115>> >>,
      << <<99, 32, 108>>, <<108>>, <<108, 115>> >> }

VARIABLES
    line,                 \* readline: string line
    cursor_pos,           \* readline: int cursor_pos
    history_index,        \* readline: int history_index
    current_line_backup,  \* readline: string current_line_backup
    lst,                  \* readline: char lst
    history,              \* global vector<string> history
    kbd,                  \* bytes of the current key press not yet read by _getch()
    scr,                  \* terminal: the cells of the current row
    col,                  \* terminal: the cursor column (0-based)
    scrolled,             \* terminal: rows completed by the last key event
    beeps,                \* MessageBeep calls made by the last key event
    ev,                   \* the branch of readline's loop the last key event took
    pc,                   \* "reading" (in readline), "returned", "exited"
    result,               \* what readline() returned
    exit_code,            \* the process's exit status, NO_INDEX while it runs
    nkeys,                \* observer: the key presses made so far
    only_typed,           \* observer: every key event of this session was a printable insertion
    typed,                \* observer: the characters typed so far while only_typed
    up_run,               \* observer: length of the run of Up events begun while not navigating
    saved,                \* observer: line and cursor_pos as the first Up of that run found
                          \* them, kept over a Down that directly follows that Up
    nav,                  \* observer: a run of Ups begun while not navigating and the
                          \* Downs that directly follow it, with line as its first Up found it
    fc_partial,           \* the argument of a call of find_completion() on its own
    fc_out,               \* what that call returned
    fc_cnt,               \* what test() returned for that result and argument
    cwd,                  \* the process's working directory
    files,                \* the lines of history.txt in each directory
    start_dir,            \* observer: the working directory at startup
    cmd_out,              \* the numbered entries the history command printed in the last iteration of main's loop
    cmd_err               \* the error it reported, "" for none

vars == <<line, cursor_pos, history_index, current_line_backup, lst, history,
          kbd, scr, col, scrolled, beeps, ev, pc, result, exit_code,
          nkeys, only_typed, typed, up_run, saved, nav, fc_partial, fc_out,
          fc_cnt, cwd, files, start_dir, cmd_out, cmd_err>>

\* What no key event touches: the calls made on their own and main's side.
main_vars == <<fc_partial, fc_out, fc_cnt, cwd, files, start_dir, cmd_out,
               cmd_err>>

\* ----------------------------------------------------------- string helpers
Rep(c, n) == [i \in 1..n |-> c]

RECURSIVE Cat(_)
\* the concatenation of a sequence of strings
Cat(ss) == IF ss = <<>> THEN <<>> ELSE Head(ss) \o Cat(Tail(ss))

\* s.substr(pos): the characters from 0-based position pos on
substr(s, pos) == SubSeq(s, pos + 1, Len(s))

\* s.substr(0, n): the first n characters, fewer when s is shorter
substr0(s, n) == SubSeq(s, 1, IF n < Len(s) THEN n ELSE Len(s))

\* s.erase(pos, 1)
erase1(s, pos) == SubSeq(s, 1, pos) \o SubSeq(s, pos + 2, Len(s))

\* s.insert(pos, 1, c)
insert1(s, pos, c) == SubSeq(s, 1, pos) \o <<c>> \o SubSeq(s, pos + 1, Len(s))

\* s.rfind(' '): the 0-based position of the last space, NO_INDEX for npos
rfind_space(s) ==
    LET hits == {i \in 1..Len(s) : s[i] = SPACE}
    IN  IF hits = {} THEN NO_INDEX
        ELSE (CHOOSE i \in hits : \A j \in hits : j <= i) - 1

\* char ch = _getch(): the byte as a signed char
ToChar(b) == IF b >= 128 THEN b - 256 ELSE b

\* ------------------------------------------------------------- completion
\* cmd.substr(0, partial.length()) == partial
HasPrefix(cmd, partial) == substr0(cmd, Len(partial)) = partial

\* Mutant of find_completion: the directory's entries are added to the
\* built-in commands instead of being a fallback.
find_completion_Merged(partial) ==
    SelectSeq(commands, LAMBDA cmd : HasPrefix(cmd, partial))
    \o SelectSeq(DirEntries,
                 LAMBDA tst : tst[1] # 46 /\ HasPrefix(tst, partial))

\* find_completion(): the built-in commands with the prefix, else the
\* directory entries with the prefix that do not begin with '.'
find_completion(partial) ==
    LET results == SelectSeq(commands, LAMBDA cmd : HasPrefix(cmd, partial))
        contents == SelectSeq(DirEntries,
                        LAMBDA tst : tst[1] # 46 /\ HasPrefix(tst, partial))
    IN  IF results # <<>> THEN results ELSE contents

\* Mutant of test: a candidate counts only when it equals the word.
test_Exact(completion, word_to_complete) ==
    Len(SelectSeq(completion, LAMBDA cmd : cmd = word_to_complete))

\* test(): how many candidates have the word as a prefix
test(completion, word_to_complete) ==
    Len(SelectSeq(completion, LAMBDA cmd : HasPrefix(cmd, word_to_complete)))

\* --------------------------------------------------------------- terminal
\* What is written to cout is a sequence of writes: a text of printable
\* characters, n times "\b", or endl.
Text(s) == [op |-> "text", s |-> s, n |-> 0]
Back(n) == [op |-> "back", s |-> <<>>, n |-> n]
Endl == [op |-> "endl", s |-> <<>>, n |-> 0]

\* One write to the terminal t = [scr, col, rows]: a text overwrites the
\* cells from the cursor on and advances the cursor, "\b" moves the cursor one
\* cell to the left unless it is in column 0, endl starts a fresh row.
Put(t, w) ==
    IF w.op = "endl"
    THEN [scr |-> <<>>, col |-> 0, rows |-> Append(t.rows, t.scr)]
    ELSE IF w.op = "back"
    THEN [t EXCEPT !.col = IF w.n <= 0 THEN t.col
                           ELSE IF t.col > w.n THEN t.col - w.n ELSE 0]
    ELSE [t EXCEPT !.scr = SubSeq(t.scr, 1, t.col) \o w.s
                           \o SubSeq(t.scr, t.col + Len(w.s) + 1, Len(t.scr)),
                   !.col = t.col + Len(w.s)]

\* the writes of one key event, in order
Emit(t, ws) ==
    LET after[i \in 0..Len(ws)] == IF i = 0 THEN t ELSE Put(after[i - 1], ws[i])
    IN  after[Len(ws)]

\* --------------------------------------------- the branches of readline()
\* The editor's state as one key event sees it; out is what the branch
\* writes to cout and beeps the number of MessageBeep calls it makes.
Ed == [line |-> line, cursor_pos |-> cursor_pos, history_index |-> history_index,
       backup |-> current_line_backup, out |-> <<>>, beeps |-> 0]

\* Mutant of OnBackspace: erases the character under the cursor.
OnBackspace_AtCursor(e) ==
    IF e.line # <<>> /\ e.cursor_pos > 0
    THEN [e EXCEPT !.line = erase1(e.line, e.cursor_pos),
                   !.cursor_pos = e.cursor_pos - 1]
    ELSE e

\* ch == '\b' || ch == 127
OnBackspace(e) ==
    IF e.line # <<>> /\ e.cursor_pos > 0
    THEN LET l2 == erase1(e.line, e.cursor_pos - 1)
             c2 == e.cursor_pos - 1
             remaining == substr(l2, c2)
         IN  [e EXCEPT !.line = l2, !.cursor_pos = c2,
                       !.out = <<Back(1), Text(remaining), Text(<<SPACE>>),
                                 Back(Len(remaining) + 1)>>]
    ELSE e

\* Mutant of OnDelete: the Backspace branch copied unchanged.
OnDelete_AsBackspace(e) == OnBackspace(e)

\* ch == 83 after the escape prefix
OnDelete(e) ==
    IF e.line # <<>> /\ e.cursor_pos < Len(e.line)
    THEN LET l2 == erase1(e.line, e.cursor_pos)
             remaining == substr(l2, e.cursor_pos)
         IN  [e EXCEPT !.line = l2,
                       !.out = <<Text(remaining), Text(<<SPACE>>),
                                 Back(Len(remaining) + 1)>>]
    ELSE e

\* Mutant of OnLeft: the cursor_pos > 0 test is missing.
OnLeft_NoGuard(e) == [e EXCEPT !.cursor_pos = e.cursor_pos - 1, !.out = <<Back(1)>>]

\* ch == 75 after the escape prefix
OnLeft(e) ==
    IF e.cursor_pos > 0
    THEN [e EXCEPT !.cursor_pos = e.cursor_pos - 1, !.out = <<Back(1)>>]
    ELSE e

\* Mutant of OnRight: the test allows the cursor one past the end.
OnRight_OffByOne(e) ==
    IF e.cursor_pos <= Len(e.line)
    THEN [e EXCEPT !.cursor_pos = e.cursor_pos + 1]
    ELSE e

\* ch == 77 after the escape prefix
OnRight(e) ==
    IF e.cursor_pos < Len(e.line)
    THEN [e EXCEPT !.cursor_pos = e.cursor_pos + 1,
                   !.out = <<Text(<<e.line[e.cursor_pos + 1]>>)>>]
    ELSE e

\* Mutant of OnPrintable: the character is appended, not inserted at the cursor.
OnPrintable_AtEnd(e, ch) ==
    [e EXCEPT !.line = Append(e.line, ch), !.cursor_pos = e.cursor_pos + 1,
              !.out = <<Text(<<ch>>)>>]

\* ch >= 32 && ch <= 126
OnPrintable(e, ch) ==
    LET l2 == insert1(e.line, e.cursor_pos, ch)
        c2 == e.cursor_pos + 1
        remaining == substr(l2, c2 - 1)
    IN  [e EXCEPT !.line = l2, !.cursor_pos = c2,
                  !.out = <<Text(remaining), Back(Len(remaining) - 1)>>]

\* Mutant of OnUp: at the oldest entry the index wraps to the newest.
OnUp_Wraps(e, hist) ==
    IF hist # <<>>
    THEN LET h2 == IF e.history_index <= 0 THEN Len(hist) - 1
                   ELSE e.history_index - 1
             b2 == IF e.history_index = NO_INDEX THEN e.line ELSE e.backup
             l2 == hist[h2 + 1]
         IN  [e EXCEPT !.history_index = h2, !.backup = b2, !.line = l2,
                       !.cursor_pos = Len(l2)]
    ELSE e

\* ch == 72 after the escape prefix
OnUp(e, hist) ==
    IF hist # <<>>
    THEN LET h2 == IF e.history_index = NO_INDEX THEN Len(hist) - 1
                   ELSE IF e.history_index > 0 THEN e.history_index - 1
                   ELSE e.history_index
             b2 == IF e.history_index = NO_INDEX THEN e.line ELSE e.backup
             l2 == hist[h2 + 1]
         IN  [e EXCEPT !.history_index = h2, !.backup = b2, !.line = l2,
                       !.cursor_pos = Len(l2),
                       !.out = <<Back(e.cursor_pos), Text(Rep(SPACE, Len(e.line))),
                                 Back(Len(e.line)), Text(l2)>>]
    ELSE e

\* Mutant of OnDown: past the newest entry the backup is not restored.
OnDown_KeepsLine(e, hist) ==
    IF e.history_index # NO_INDEX
    THEN LET more == e.history_index < Len(hist) - 1
             h2 == IF more THEN e.history_index + 1 ELSE NO_INDEX
             l2 == IF more THEN hist[h2 + 1] ELSE e.line
         IN  [e EXCEPT !.history_index = h2, !.line = l2, !.cursor_pos = Len(l2)]
    ELSE e

\* Mutant of OnDown: at the newest entry Down does nothing.
OnDown_StopsAtNewest(e, hist) ==
    IF e.history_index # NO_INDEX /\ e.history_index < Len(hist) - 1
    THEN LET h2 == e.history_index + 1
             l2 == hist[h2 + 1]
         IN  [e EXCEPT !.history_index = h2, !.line = l2, !.cursor_pos = Len(l2)]
    ELSE e

\* Mutant of OnDown: Down starts navigating at the oldest entry when no
\* navigation is going on.
OnDown_Enters(e, hist) ==
    IF e.history_index = NO_INDEX /\ hist # <<>>
    THEN [e EXCEPT !.history_index = 0, !.backup = e.line, !.line = hist[1],
                   !.cursor_pos = Len(hist[1])]
    ELSE IF e.history_index # NO_INDEX
    THEN LET more == e.history_index < Len(hist) - 1
             h2 == IF more THEN e.history_index + 1 ELSE NO_INDEX
             l2 == IF more THEN hist[h2 + 1] ELSE e.backup
         IN  [e EXCEPT !.history_index = h2, !.line = l2, !.cursor_pos = Len(l2)]
    ELSE e

\* ch == 80 after the escape prefix
OnDown(e, hist) ==
    IF e.history_index # NO_INDEX
    THEN LET old_line_length == Len(e.line)
             more == e.history_index < Len(hist) - 1
             h2 == IF more THEN e.history_index + 1 ELSE NO_INDEX
             l2 == IF more THEN hist[h2 + 1] ELSE e.backup
         IN  [e EXCEPT !.history_index = h2, !.line = l2, !.cursor_pos = Len(l2),
                       !.out = <<Back(e.cursor_pos), Text(Rep(SPACE, old_line_length)),
                                 Back(old_line_length), Text(l2)>>]
    ELSE e

\* The word a Tab hands to find_completion(): what follows the last space of
\* line, or line when it has no space.
word_to_complete(l) ==
    LET space_pos == rfind_space(l)
    IN  IF space_pos = NO_INDEX THEN l ELSE substr(l, space_pos + 1)

\* A Tab whose unique completion replaces the whole line, not the last word.
OnTab_WholeLine(e, last) ==
    LET space_pos == rfind_space(e.line)
        completion == find_completion(word_to_complete(e.line))
    IN  IF last = TAB
        THEN IF Len(completion) > 1
             THEN [e EXCEPT !.out =
                      <<Endl>>
                      \o [i \in 1..Len(completion) |->
                             Text(completion[i] \o Rep(SPACE, 4))]
                      \o <<Endl, Text(PROMPT), Text(e.line),
                            Back(Len(e.line) - e.cursor_pos)>>]
             ELSE e
        ELSE IF completion # <<>> /\ test(completion, word_to_complete(e.line)) = 1
        THEN LET l2 == completion[1]
             IN  [e EXCEPT !.line = l2, !.cursor_pos = Len(l2),
                           !.out = Cat([i \in 1..Len(e.line) |->
                                        <<Back(1), Text(<<SPACE>>), Back(1)>>])
                                   \o <<Text(l2)>>]
        ELSE [e EXCEPT !.beeps = 1]

\* ch == '\t'; last is the value of lst when the key is read
OnTab(e, last) ==
    LET space_pos == rfind_space(e.line)
        completion == find_completion(word_to_complete(e.line))
    IN  IF last = TAB
        THEN IF Len(completion) > 1
             THEN [e EXCEPT !.out =
                      <<Endl>>
                      \o [i \in 1..Len(completion) |->
                             Text(completion[i] \o Rep(SPACE, 4))]
                      \o <<Endl, Text(PROMPT), Text(e.line),
                            Back(Len(e.line) - e.cursor_pos)>>]
             ELSE e
        ELSE IF completion # <<>> /\ test(completion, word_to_complete(e.line)) = 1
        THEN LET l2 == IF space_pos = NO_INDEX THEN completion[1]
                       ELSE substr0(e.line, space_pos + 1) \o completion[1]
             IN  [e EXCEPT !.line = l2, !.cursor_pos = Len(l2),
                           !.out = Cat([i \in 1..Len(e.line) |->
                                        <<Back(1), Text(<<SPACE>>), Back(1)>>])
                                   \o <<Text(l2)>>]
        ELSE [e EXCEPT !.beeps = 1]

\* ------------------------------------------------------- the loop's frame
\* The bytes the next _getch() calls return: the rest of a key press already
\* begun, or a fresh key press.
Inputs ==
    IF kbd # <<>> THEN {kbd}
    ELSE IF nkeys < MaxKeys THEN PlainKeys \cup CharKeys \cup ExtKeys \cup FnKeys
    ELSE {}

IsEsc(ch) == ch = ESC_NEG \/ ch = ESC_POS
IsBackspace(ch) == ch = BS \/ ch = DEL
IsPrintable(ch) == ch >= PRINT_LO /\ ch <= PRINT_HI

NoSaved == [at |-> "none", line |-> <<>>, cursor |-> 0]
NoNav == [ups |-> 0, downs |-> 0, line |-> <<>>]

\* The observers of one key event that took branch name.
Observe(name, ch) ==
    /\ ev' = name
    /\ only_typed' = (only_typed /\ name = "Printable")
    /\ typed' = IF only_typed' THEN Append(typed, ch) ELSE <<>>
    /\ nkeys' = IF kbd = <<>> THEN nkeys + 1 ELSE nkeys
    /\ up_run' = IF name = "Up" /\ history # <<>>
                 THEN IF history_index = NO_INDEX THEN 1
                      ELSE IF up_run > 0 THEN up_run + 1
                      ELSE 0
                 ELSE 0
    /\ saved' = IF up_run' = 1
                THEN [at |-> "up", line |-> line, cursor |-> cursor_pos]
                ELSE IF name = "Down" /\ saved.at = "up"
                THEN [saved EXCEPT !.at = "updown"]
                ELSE NoSaved
    /\ nav' = IF name = "Up" /\ history # <<>>
              THEN IF history_index = NO_INDEX
                   THEN [ups |-> 1, downs |-> 0, line |-> line]
                   ELSE IF nav.ups > 0 /\ nav.downs = 0
                   THEN [nav EXCEPT !.ups = nav.ups + 1]
                   ELSE NoNav
              ELSE IF name = "Down" /\ nav.ups > 0 /\ nav.downs < nav.ups
              THEN [nav EXCEPT !.downs = nav.downs + 1]
              ELSE NoNav

\* One pass of the while loop that ends at "lst = ch": the branch left the
\* editor as e, having read ch last and left rest unread.
Commit(e, ch, rest, name) ==
    LET t == Emit([scr |-> scr, col |-> col, rows |-> <<>>], e.out)
    IN  /\ line' = e.line
        /\ cursor_pos' = e.cursor_pos
        /\ history_index' = e.history_index
        /\ current_line_backup' = e.backup
        /\ scr' = t.scr
        /\ col' = t.col
        /\ scrolled' = t.rows
        /\ beeps' = e.beeps
        /\ lst' = ch
        /\ kbd' = rest
        /\ Observe(name, ch)
        /\ UNCHANGED <<history, pc, result, exit_code, main_vars>>

\* ----------------------------------------------------------------- actions
Backspace ==
    /\ pc = "reading"
    /\ \E k \in Inputs :
         LET ch == ToChar(Head(k))
         IN  /\ ch # CR
             /\ IsBackspace(ch)
             /\ Commit(OnBackspace(Ed), ch, Tail(k), "Backspace")

Tab ==
    /\ pc = "reading"
    /\ \E k \in Inputs :
         LET ch == ToChar(Head(k))
         IN  /\ ch # CR /\ ~IsBackspace(ch)
             /\ ch = TAB
             /\ Commit(OnTab(Ed, lst), ch, Tail(k), "Tab")

\* The escape prefix and the byte that follows it: the pairs <<ch2, rest>>
\* of that second byte and what the key press leaves unread.
ExtReads ==
    UNION { LET ch == ToChar(Head(k))
            IN  IF ch # CR /\ ~IsBackspace(ch) /\ ch # TAB /\ IsEsc(ch) /\ Len(k) >= 2
                THEN {<<ToChar(k[2]), Tail(Tail(k))>>}
                ELSE {} : k \in Inputs }

Up ==
    /\ pc = "reading"
    /\ \E r \in ExtReads :
         /\ r[1] = K_UP
         /\ Commit(OnUp(Ed, history), r[1], r[2], "Up")

Down ==
    /\ pc = "reading"
    /\ \E r \in ExtReads :
         /\ r[1] = K_DOWN
         /\ Commit(OnDown(Ed, history), r[1], r[2], "Down")

Left ==
    /\ pc = "reading"
    /\ \E r \in ExtReads :
         /\ r[1] = K_LEFT
         /\ Commit(OnLeft(Ed), r[1], r[2], "Left")

Right ==
    /\ pc = "reading"
    /\ \E r \in ExtReads :
         /\ r[1] = K_RIGHT
         /\ Commit(OnRight(Ed), r[1], r[2], "Right")

Delete ==
    /\ pc = "reading"
    /\ \E r \in ExtReads :
         /\ r[1] = K_DELETE
         /\ Commit(OnDelete(Ed), r[1], r[2], "Delete")

\* An escape prefix followed by a byte no branch handles.
ExtOther ==
    /\ pc = "reading"
    /\ \E r \in ExtReads :
         /\ r[1] \notin {K_UP, K_DOWN, K_LEFT, K_RIGHT, K_DELETE}
         /\ Commit(Ed, r[1], r[2], "ExtOther")

Printable ==
    /\ pc = "reading"
    /\ \E k \in Inputs :
         LET ch == ToChar(Head(k))
         IN  /\ ch # CR /\ ~IsBackspace(ch) /\ ch # TAB /\ ~IsEsc(ch)
             /\ IsPrintable(ch)
             /\ Commit(OnPrintable(Ed, ch), ch, Tail(k), "Printable")

\* A byte no branch handles: only "lst = ch" runs.
Ignored ==
    /\ pc = "reading"
    /\ \E k \in Inputs :
         LET ch == ToChar(Head(k))
         IN  /\ ch # CR /\ ~IsBackspace(ch) /\ ch # TAB /\ ~IsEsc(ch)
             /\ ~IsPrintable(ch) /\ ch # CTRL_D
             /\ Commit(Ed, ch, Tail(k), "Ignored")

\* Mutant of CStr: the copy is one character short.
CStr_Short(s) == SubSeq(s, 1, Len(s) - 1)

\* strcpy(result, line.c_str()): the characters before the first NUL
CStr(s) ==
    LET nul == {i \in 1..Len(s) : s[i] = 0}
    IN  IF nul = {} THEN s
        ELSE SubSeq(s, 1, (CHOOSE i \in nul : \A j \in nul : i <= j) - 1)

\* cout << endl; break; and the copy of line that readline() returns
Enter ==
    /\ pc = "reading"
    /\ \E k \in Inputs :
         LET ch == ToChar(Head(k))
             t == Emit([scr |-> scr, col |-> col, rows |-> <<>>], <<Endl>>)
         IN  /\ ch = CR
             /\ kbd' = Tail(k)
             /\ scr' = t.scr /\ col' = t.col /\ scrolled' = t.rows
             /\ beeps' = 0
             /\ result' = CStr(line)
             /\ pc' = "returned"
             /\ Observe("Enter", ch)
             /\ UNCHANGED <<line, cursor_pos, history_index, current_line_backup,
                            lst, history, exit_code, main_vars>>

\* Mutant of Exit: the call is missing and the loop goes on.
Exit_Missing(status) == [pc |-> "reading", exit_code |-> NO_INDEX]

\* exit(status): the process ends, nothing after the call runs
Exit(status) == [pc |-> "exited", exit_code |-> status]

\* ch == 4: exit(1)
CtrlD ==
    /\ pc = "reading"
    /\ \E k \in Inputs :
         LET ch == ToChar(Head(k))
         IN  /\ ch # CR /\ ~IsBackspace(ch) /\ ch # TAB /\ ~IsEsc(ch)
             /\ ~IsPrintable(ch)
             /\ ch = CTRL_D
             /\ kbd' = Tail(k)
             /\ pc' = Exit(EXIT_CTRL_D).pc
             /\ exit_code' = Exit(EXIT_CTRL_D).exit_code
             /\ beeps' = 0
             /\ scrolled' = <<>>
             /\ Observe("CtrlD", ch)
             /\ UNCHANGED <<line, cursor_pos, history_index, current_line_backup,
                            lst, history, scr, col, result, main_vars>>

\* Mutant of Trim: only the leading blanks are erased.
Trim_LeadingOnly(s) ==
    LET keep == {i \in 1..Len(s) : s[i] # SPACE /\ s[i] # TAB}
    IN  IF keep = {} THEN <<>>
        ELSE SubSeq(s, CHOOSE i \in keep : \A j \in keep : i <= j, Len(s))

\* ------------------------------------------------------------------ main()
\* input.erase(0, input.find_first_not_of(" \t"));
\* input.erase(input.find_last_not_of(" \t") + 1);
Trim(s) ==
    LET keep == {i \in 1..Len(s) : s[i] # SPACE /\ s[i] # TAB}
    IN  IF keep = {} THEN <<>>
        ELSE SubSeq(s, CHOOSE i \in keep : \A j \in keep : i <= j,
                       CHOOSE i \in keep : \A j \in keep : j <= i)

\* The values an uninitialised char can hold when readline() starts: any
\* char; the loop only compares it with '\t'.
Uninit == {0, TAB, 99}

\* Mutant of SessionStart: history_index is static and keeps its value from
\* one call of readline() to the next.
SessionStart_StaticIndex ==
    /\ line' = <<>>
    /\ cursor_pos' = 0
    /\ history_index' = history_index
    /\ current_line_backup' = <<>>
    /\ lst' \in Uninit
    /\ scr' = PROMPT
    /\ col' = Len(PROMPT)
    /\ scrolled' = <<>>
    /\ beeps' = 0
    /\ ev' = "none"
    /\ only_typed' = TRUE
    /\ typed' = <<>>
    /\ up_run' = 0
    /\ saved' = NoSaved
    /\ nav' = NoNav
    /\ pc' = "reading"

\* print_prompt() and the locals of readline() as its declarations leave them
SessionStart ==
    /\ line' = <<>>
    /\ cursor_pos' = 0
    /\ history_index' = NO_INDEX
    /\ current_line_backup' = <<>>
    /\ lst' \in Uninit
    /\ scr' = PROMPT
    /\ col' = Len(PROMPT)
    /\ scrolled' = <<>>
    /\ beeps' = 0
    /\ ev' = "none"
    /\ only_typed' = TRUE
    /\ typed' = <<>>
    /\ up_run' = 0
    /\ saved' = NoSaved
    /\ nav' = NoNav
    /\ pc' = "reading"

\* ------------------------------------------------------- main()'s commands
\* "history", "cd", "cd ", "exit 0", "~", ".", ".."
S_history == <<104, 105, 115, 116, 111, 114, 121>>
S_cd == <<99, 100>>
S_cd_ == <<99, 100, 32>>
S_exit0 == <<101, 120, 105, 116, 32, 48>>
S_tilde == <<126>>
S_dot == <<46>>
S_dotdot == <<46, 46>>

\* The directories there are: the root, written as the empty path, and its
\* subdirectory "a"; HOME is the root.
Root == <<>>
Dirs == {Root, <<<<97>>>>}
Home == Root

\* chdir(path) from directory d: the new working directory, d when it fails
chdir(d, path) ==
    IF path = S_dot THEN d
    ELSE IF path = S_dotdot
    THEN IF d = Root THEN d ELSE SubSeq(d, 1, Len(d) - 1)
    ELSE IF path # <<>> /\ Append(d, path) \in Dirs THEN Append(d, path)
    ELSE d

\* s.find(" "): the 0-based position of the first space, NO_INDEX for npos
find_space(s) ==
    LET hits == {i \in 1..Len(s) : s[i] = SPACE}
    IN  IF hits = {} THEN NO_INDEX
        ELSE (CHOOSE i \in hits : \A j \in hits : i <= j) - 1

\* input.substr(0, input.find(" "))
command_of(input) ==
    IF find_space(input) = NO_INDEX THEN input
    ELSE substr0(input, find_space(input))

\* found(): the command is one of the built-in commands
found(command) == \E i \in 1..Len(commands) : commands[i] = command

\* A long long is held as its sign and the decimal digits of its magnitude,
\* most significant first and without leading zeros.
IsDigit(c) == c >= 48 /\ c <= 57
LLONG_MAX == <<9, 2, 2, 3, 3, 7, 2, 0, 3, 6, 8, 5, 4, 7, 7, 5, 8, 0, 7>>
LLONG_MIN == <<9, 2, 2, 3, 3, 7, 2, 0, 3, 6, 8, 5, 4, 7, 7, 5, 8, 0, 8>>

\* digit strings of one length: a is greater than b
Greater(a, b) ==
    \E i \in 1..Len(a) : a[i] > b[i] /\ \A j \in 1..(i - 1) : a[j] = b[j]

\* stoll(str): blanks are skipped, then an optional sign, then the digits up
\* to the first other character; no digit is invalid_argument, a value that
\* does not fit a long long is out_of_range.
stoll(str) ==
    LET blanks == {k \in 0..Len(str) :
                      \A i \in 1..k : str[i] = SPACE \/ str[i] = TAB}
        s1 == SubSeq(str, Cardinality(blanks), Len(str))
        signed == s1 # <<>> /\ (s1[1] = 45 \/ s1[1] = 43)
        neg == s1 # <<>> /\ s1[1] = 45
        s2 == IF signed THEN Tail(s1) ELSE s1
        nd == Cardinality({k \in 1..Len(s2) : \A i \in 1..k : IsDigit(s2[i])})
        digits == [i \in 1..nd |-> s2[i] - 48]
        nz == Cardinality({k \in 1..nd : \A i \in 1..k : digits[i] = 0})
        mag == SubSeq(digits, nz + 1, nd)
        limit == IF neg THEN LLONG_MIN ELSE LLONG_MAX
    IN  IF nd = 0 THEN [err |-> "invalid_argument", neg |-> FALSE, mag |-> <<>>]
        ELSE IF Len(mag) > Len(limit)
                \/ (Len(mag) = Len(limit) /\ Greater(mag, limit))
        THEN [err |-> "out_of_range", neg |-> FALSE, mag |-> <<>>]
        ELSE [err |-> "", neg |-> neg /\ mag # <<>>, mag |-> mag]

RECURSIVE Low32(_)
\* the low 32 bits of a magnitude, as two 16-bit halves
Low32(mag) ==
    IF mag = <<>> THEN [h |-> 0, l |-> 0]
    ELSE LET p == Low32(SubSeq(mag, 1, Len(mag) - 1))
             x == p.l * 10 + mag[Len(mag)]
         IN  [l |-> x % 65536, h |-> (p.h * 10 + x \div 65536) % 65536]

\* int i = (a long long): the low 32 bits, read as a two's complement int
ToInt(v) ==
    LET m == Low32(v.mag)
        w == IF v.neg
             THEN [l |-> (65536 - m.l) % 65536,
                   h |-> (65535 - m.h + (IF m.l = 0 THEN 1 ELSE 0)) % 65536]
             ELSE m
    IN  IF w.h >= 32768 THEN (w.h - 65536) * 65536 + w.l
        ELSE w.h * 65536 + w.l

\* The history command on the trimmed line input, hist being the history
\* with that line already appended: what it prints and the error it reports.
history_cmd(input, hist) ==
    LET num_str == substr(input, 8)
        v == stoll(num_str)
        n == ToInt(v)
        from(i) == [out |-> [k \in 1..(Len(hist) - i) |-> <<i + k, hist[i + k]>>],
                    err |-> ""]
        fail(msg) == [out |-> <<>>, err |-> msg]
    IN  IF input = S_history THEN from(0)
        ELSE IF num_str = <<>> THEN fail("history command requires a number")
        ELSE IF v.err = "invalid_argument" THEN fail("Invalid number format")
        ELSE IF v.err = "out_of_range" THEN fail("Number out of range")
        ELSE IF n < 1 \/ n > Len(hist) THEN fail("Invalid history index")
        ELSE from(Len(hist) - n)

\* cd(input): the working directory after it
cd(input, d) ==
    LET inp == IF input = S_cd THEN S_cd_ ELSE input
        path == Trim(substr(inp, 3))
    IN  IF path = S_tilde THEN Home ELSE chdir(d, path)

\* add_history(command): the line is appended to history.txt of the working
\* directory
add_history(command) == [files EXCEPT ![cwd] = Append(@, command)]

\* The body of main()'s loop after readline() has returned: trim, skip an
\* empty line, else append to the history file and to history, exit on
\* "exit 0", run the command; then the next prompt.
MainLoop ==
    /\ pc = "returned"
    /\ LET input == Trim(result)
           command == command_of(input)
       IN  IF input = <<>>
           THEN /\ SessionStart
                /\ cmd_out' = <<>> /\ cmd_err' = ""
                /\ UNCHANGED <<history, files, cwd, exit_code>>
           ELSE /\ files' = add_history(input)
                /\ history' = Append(history, input)
                /\ IF input = S_exit0
                   THEN /\ pc' = Exit(0).pc
                        /\ exit_code' = Exit(0).exit_code
                        /\ UNCHANGED <<line, cursor_pos, history_index,
                                       current_line_backup, lst, scr, col,
                                       scrolled, beeps, ev, only_typed, typed,
                                       up_run, saved, nav, cwd, cmd_out,
                                       cmd_err>>
                   ELSE /\ SessionStart
                        /\ cmd_out' = IF found(command) /\ command = S_history
                                      THEN history_cmd(input, history').out
                                      ELSE <<>>
                        /\ cmd_err' = IF found(command) /\ command = S_history
                                      THEN history_cmd(input, history').err
                                      ELSE ""
                        /\ cwd' = IF found(command) /\ command = S_cd
                                  THEN cd(input, cwd) ELSE cwd
                        /\ UNCHANGED exit_code
    /\ UNCHANGED <<kbd, result, nkeys, fc_partial, fc_out, fc_cnt, start_dir>>

Init ==
    /\ history \in HistInit
    /\ line = <<>>
    /\ cursor_pos = 0
    /\ history_index = NO_INDEX
    /\ current_line_backup = <<>>
    /\ lst \in Uninit
    /\ kbd = <<>>
    /\ scr = PROMPT
    /\ col = Len(PROMPT)
    /\ scrolled = <<>>
    /\ beeps = 0
    /\ ev = "none"
    /\ only_typed = TRUE
    /\ typed = <<>>
    /\ nkeys = 0
    /\ up_run = 0
    /\ saved = NoSaved
    /\ nav = NoNav
    /\ fc_partial = <<>>
    /\ fc_out = <<>>
    /\ fc_cnt = 0
    /\ cwd = Root
    /\ start_dir = Root
    /\ files = [d \in Dirs |-> IF d = Root THEN history ELSE <<>>]
    /\ cmd_out = <<>>
    /\ cmd_err = ""
    /\ pc = "reading"
    /\ result = <<>>
    /\ exit_code = NO_INDEX

Next ==
    \/ Enter
    \/ Backspace
    \/ Tab
    \/ Up
    \/ Down
    \/ Left
    \/ Right
    \/ Delete
    \/ ExtOther
    \/ Printable
    \/ CtrlD
    \/ Ignored
    \/ MainLoop

Spec == Init /\ [][Next]_vars

\* ------------------------------------------- find_completion() on its own
\* The partial words find_completion() is called with.
MaxPartial == 3
FcChars == {46, 99, 104, 108}
Partials == UNION {[1..n -> FcChars] : n \in 0..MaxPartial}

\* One call of find_completion(partial).
Complete ==
    /\ pc = "fc_call"
    /\ fc_out' = find_completion(fc_partial)
    /\ pc' = "fc_done"
    /\ UNCHANGED <<line, cursor_pos, history_index, current_line_backup, lst,
                   history, kbd, scr, col, scrolled, beeps, ev, result,
                   exit_code, nkeys, only_typed, typed, up_run, saved, nav,
                   fc_partial, fc_cnt, cwd, files, start_dir, cmd_out,
                   cmd_err>>

\* One call of test() on what find_completion() returned, as Tab makes it.
Count ==
    /\ pc = "fc_done"
    /\ fc_cnt' = test(fc_out, fc_partial)
    /\ pc' = "fc_counted"
    /\ UNCHANGED <<line, cursor_pos, history_index, current_line_backup, lst,
                   history, kbd, scr, col, scrolled, beeps, ev, result,
                   exit_code, nkeys, only_typed, typed, up_run, saved, nav,
                   fc_partial, fc_out, cwd, files, start_dir, cmd_out,
                   cmd_err>>

InitFC ==
    /\ fc_partial \in Partials
    /\ fc_out = <<>>
    /\ pc = "fc_call"
    /\ history = <<>>
    /\ line = <<>>
    /\ cursor_pos = 0
    /\ history_index = NO_INDEX
    /\ current_line_backup = <<>>
    /\ lst = 0
    /\ kbd = <<>>
    /\ scr = <<>>
    /\ col = 0
    /\ scrolled = <<>>
    /\ beeps = 0
    /\ ev = "none"
    /\ only_typed = TRUE
    /\ typed = <<>>
    /\ nkeys = 0
    /\ up_run = 0
    /\ saved = NoSaved
    /\ nav = NoNav
    /\ result = <<>>
    /\ exit_code = NO_INDEX
    /\ fc_cnt = 0
    /\ cwd = Root
    /\ start_dir = Root
    /\ files = [d \in Dirs |-> <<>>]
    /\ cmd_out = <<>>
    /\ cmd_err = ""

NextFC ==
    \/ Complete
    \/ Count

SpecFC == InitFC /\ [][NextFC]_vars

\* The editor's runs together with the calls made on their own.
InitAll == Init \/ InitFC

NextAll ==
    \/ Next
    \/ NextFC

SpecAll == InitAll /\ [][NextAll]_vars

\* ------------------------------------------------- main()'s loop on its own
\* At most MaxHistory lines are in history when a further line is read.
MaxHistory == 3

\* What history.txt of a directory holds at startup: nothing, or "ls".
FileInit == {<<>>, <<<<108, 115>>>>}

\* The lines readline() returns to main(): "ls", " ", "cd a", "cd ..",
\* "exit 0", "history", "history 1", "history 2", "history 0", "history -1",
\* "history 4294967297", "history 9223372036854775808"
Lines ==
    { <<108, 115>>, <<32>>, <<99, 100, 32, 97>>, <<99, 100, 32, 46, 46>>, <<101, 120, 105, 116, 32, 48>>,
      <<104, 105, 115, 116, 111, 114, 121>>, <<104, 105, 115, 116, 111, 114, 121, 32, 49>>, <<104, 105, 115, 116, 111, 114, 121, 32, 50>>, <<104, 105, 115, 116, 111, 114, 121, 32, 48>>, <<104, 105, 115, 116, 111, 114, 121, 32, 45, 49>>,
      <<104, 105, 115, 116, 111, 114, 121, 32, 52, 50, 57, 52, 57, 54, 55, 50, 57, 55>>,
      <<104, 105, 115, 116, 111, 114, 121, 32, 57, 50, 50, 51, 51, 55, 50, 48, 51, 54, 56, 53, 52, 55, 55, 53, 56, 48, 56>> }

\* One call of readline(), whatever the keys were: it returns a line.
ReadLine ==
    /\ pc = "reading"
    /\ Len(history) < MaxHistory
    /\ result' \in Lines
    /\ pc' = "returned"
    /\ UNCHANGED <<line, cursor_pos, history_index, current_line_backup, lst,
                   history, kbd, scr, col, scrolled, beeps, ev, exit_code,
                   nkeys, only_typed, typed, up_run, saved, nav, main_vars>>

\* get_history() at startup, from the history.txt of the working directory.
InitMain ==
    /\ cwd \in Dirs
    /\ start_dir = cwd
    /\ files \in [Dirs -> FileInit]
    /\ history = files[cwd]
    /\ line = <<>>
    /\ cursor_pos = 0
    /\ history_index = NO_INDEX
    /\ current_line_backup = <<>>
    /\ lst \in Uninit
    /\ kbd = <<>>
    /\ scr = PROMPT
    /\ col = Len(PROMPT)
    /\ scrolled = <<>>
    /\ beeps = 0
    /\ ev = "none"
    /\ only_typed = TRUE
    /\ typed = <<>>
    /\ nkeys = 0
    /\ up_run = 0
    /\ saved = NoSaved
    /\ nav = NoNav
    /\ fc_partial = <<>>
    /\ fc_out = <<>>
    /\ fc_cnt = 0
    /\ cmd_out = <<>>
    /\ cmd_err = ""
    /\ pc = "reading"
    /\ result = <<>>
    /\ exit_code = NO_INDEX

NextMain ==
    \/ ReadLine
    \/ MainLoop

SpecMain == InitMain /\ [][NextMain]_vars

\* ------------------------------------------------------------------ claims
\* A step that is one key event of readline() taking branch name.
KeyStep(name) == pc = "reading" /\ ev' = name

\* C1: in readline(), after every key event, 0 <= cursor_pos <= length(line).
C1_CursorInRange == cursor_pos >= 0 /\ cursor_pos <= Len(line)

\* C1 witness: a Down has just restored a non-empty backup over a longer
\* recalled line, whose cleared cells the row still holds.
C1_Witness ==
    /\ ev = "Down" /\ history_index = NO_INDEX
    /\ line # <<>> /\ cursor_pos = Len(line)
    /\ Len(scr) > Len(PROMPT) + Len(line)

\* What a row of cells shows: blank cells at its end are not visible.
Visible(row) ==
    LET inked == {i \in 1..Len(row) : row[i] # SPACE}
    IN  IF inked = {} THEN <<>>
        ELSE SubSeq(row, 1, CHOOSE i \in inked : \A j \in inked : j <= i)

\* C2: while a session reads keys, the visible row is the prompt followed by
\* line and the terminal cursor is in column length(prompt) + cursor_pos.
C2_ScreenMatches ==
    pc = "reading" =>
        /\ Visible(scr) = Visible(PROMPT \o line)
        /\ col = Len(PROMPT) + cursor_pos

\* C3: a printable character typed at cursor_pos = k turns line into
\* line[0..k) + c + line[k..) and sets cursor_pos to k + 1; and as long as a
\* session has seen printable insertions only, line is the typed characters in
\* order and cursor_pos is its length.
C3_Insert ==
    /\ [][KeyStep("Printable") =>
            LET k == cursor_pos
                c == lst'
            IN  /\ IsPrintable(c)
                /\ Len(line') = Len(line) + 1
                /\ \A i \in 1..Len(line') :
                      line'[i] = IF i <= k THEN line[i]
                                 ELSE IF i = k + 1 THEN c ELSE line[i - 1]
                /\ cursor_pos' = k + 1]_vars
    /\ [](only_typed => line = typed /\ cursor_pos = Len(line))

\* C3 witness: a character has been inserted between two others.
C3_Witness ==
    /\ ev = "Printable" /\ pc = "reading"
    /\ cursor_pos >= 2 /\ cursor_pos < Len(line)
    /\ line[cursor_pos] = lst

\* C4: Backspace with cursor_pos > 0 removes exactly the character at index
\* cursor_pos - 1 and decrements cursor_pos; with cursor_pos = 0 it changes
\* neither line nor cursor_pos.
C4_Backspace ==
    [][KeyStep("Backspace") =>
          IF cursor_pos > 0
          THEN /\ Len(line') = Len(line) - 1
               /\ \A i \in 1..Len(line') :
                     line'[i] = IF i < cursor_pos THEN line[i] ELSE line[i + 1]
               /\ cursor_pos' = cursor_pos - 1
          ELSE line' = line /\ cursor_pos' = 0]_vars

\* C4 witness: a Backspace has removed a character from inside the line.
C4_Witness ==
    /\ ev = "Backspace" /\ cursor_pos >= 1 /\ cursor_pos < Len(line)
    /\ Visible(scr) = Visible(PROMPT \o line)

\* C5: Delete with cursor_pos < length(line) removes exactly the character at
\* index cursor_pos and leaves cursor_pos unchanged; at the end of the line it
\* changes neither.
C5_Delete ==
    [][KeyStep("Delete") =>
          /\ cursor_pos' = cursor_pos
          /\ IF cursor_pos < Len(line)
             THEN /\ Len(line') = Len(line) - 1
                  /\ \A i \in 1..Len(line') :
                        line'[i] = IF i <= cursor_pos THEN line[i] ELSE line[i + 1]
             ELSE line' = line]_vars

\* C5 witness: a Delete has removed a character from inside the line.
C5_Witness ==
    /\ ev = "Delete" /\ cursor_pos >= 1 /\ cursor_pos < Len(line)
    /\ Len(scr) = Len(PROMPT) + Len(line) + 1

\* C6: Left decrements cursor_pos when it is > 0, Right increments it when it
\* is < length(line), at the boundaries they do nothing; line, history_index
\* and current_line_backup are unchanged in every case.
C6_LeftRight ==
    [][/\ KeyStep("Left") =>
             /\ cursor_pos' = IF cursor_pos > 0 THEN cursor_pos - 1 ELSE cursor_pos
             /\ UNCHANGED <<line, history_index, current_line_backup>>
       /\ KeyStep("Right") =>
             /\ cursor_pos' = IF cursor_pos < Len(line) THEN cursor_pos + 1
                              ELSE cursor_pos
             /\ UNCHANGED <<line, history_index, current_line_backup>>]_vars

\* C6 witness: a Right has moved the cursor inside a recalled line.
C6_Witness ==
    /\ ev = "Right" /\ history_index # NO_INDEX
    /\ cursor_pos >= 1 /\ cursor_pos < Len(line)

\* C7: Enter ends the session and readline() returns exactly line, wherever
\* the cursor is and whether or not history is being navigated; no key other
\* than Enter or Ctrl-D ends the session.
C7_Enter ==
    [][/\ KeyStep("Enter") => pc' = "returned" /\ result' = line
       /\ (pc = "reading" /\ pc' # "reading") => ev' \in {"Enter", "CtrlD"}]_vars

\* C7 witness: a recalled line was submitted with the cursor inside it.
C7_Witness ==
    /\ pc = "returned" /\ ev = "Enter"
    /\ history_index # NO_INDEX /\ cursor_pos < Len(line) /\ result # <<>>

\* C8: Ctrl-D ends the process at once with a non-zero status: readline()
\* returns nothing, the history is not appended to, and no step follows.
C8_CtrlD ==
    [][/\ KeyStep("CtrlD") =>
             /\ pc' = "exited" /\ exit_code' # 0
             /\ UNCHANGED <<history, result, line, cursor_pos>>
       /\ pc # "exited"]_vars

\* C8 witness: the process was ended in the middle of a non-empty line.
C8_Witness ==
    /\ pc = "exited" /\ ev = "CtrlD" /\ exit_code = 1
    /\ Trim(line) # <<>> /\ history = <<>>

Max(a, b) == IF a > b THEN a ELSE b

\* C9: with a non-empty history, the k-th Up of a run of Ups begun while not
\* navigating sets history_index to max(count - k, 0), loads that entry into
\* line and puts the cursor at its end; the first Up saves line in
\* current_line_backup; history_index is NO_INDEX or a valid index.
C9_Up ==
    /\ [](up_run > 0 =>
            /\ history_index = Max(Len(history) - up_run, 0)
            /\ line = history[history_index + 1]
            /\ cursor_pos = Len(line))
    /\ [][(KeyStep("Up") /\ history # <<>> /\ history_index = NO_INDEX) =>
             current_line_backup' = line]_vars
    /\ [](history_index = NO_INDEX \/ history_index \in 0..(Len(history) - 1))

\* C9 witness: a fourth Up in a row over a history of three entries.
C9_Witness ==
    /\ up_run = 4 /\ Len(history) = 3 /\ history_index = 0
    /\ line = history[1] /\ ev = "Up"

\* C10 as stated: Up then Down from line B with the cursor at c, while not
\* navigating, restores line to B and cursor_pos to c.
C10_UpDownRestoresCursor ==
    saved.at = "updown" => line = saved.line /\ cursor_pos = saved.cursor

\* C10 amended: Up then Down from line B, while not navigating, restores line
\* to B, ends the navigation and puts the cursor at the end of B.
C10_UpDownRestoresLine ==
    saved.at = "updown" =>
        /\ line = saved.line
        /\ cursor_pos = Len(saved.line)
        /\ history_index = NO_INDEX

\* C10 witness: Up then Down pressed with the cursor inside a non-empty line.
C10_Witness ==
    /\ saved.at = "updown" /\ ev = "Down"
    /\ saved.line # <<>> /\ saved.cursor < Len(saved.line)

\* C11: while navigating, Down moves history_index one step toward the
\* newest entry and loads that entry; at the newest entry it ends the
\* navigation and sets line to current_line_backup, which no key changes while
\* navigating, whatever was done to the recalled line; and k Ups followed by
\* k Downs (k <= count) end not navigating with line as the first Up found it.
C11_Down ==
    /\ [][(KeyStep("Down") /\ history_index # NO_INDEX) =>
             IF history_index < Len(history) - 1
             THEN /\ history_index' = history_index + 1
                  /\ line' = history[history_index' + 1]
             ELSE /\ history_index' = NO_INDEX
                  /\ line' = current_line_backup]_vars
    /\ [][(pc = "reading" /\ history_index # NO_INDEX) =>
             current_line_backup' = current_line_backup]_vars
    /\ [](nav.ups > 0 /\ nav.ups <= Len(history) =>
            IF nav.downs = nav.ups
            THEN history_index = NO_INDEX /\ line = nav.line
            ELSE /\ history_index = Len(history) - nav.ups + nav.downs
                 /\ line = history[history_index + 1])

\* C11 witness: two Ups and two Downs from a non-empty line.
C11_Witness ==
    /\ nav.ups = 2 /\ nav.downs = 2 /\ nav.line # <<>>
    /\ ev = "Down" /\ Len(history) >= 2

\* C12: Up pressed while history_index is 0 changes neither history_index
\* nor line nor cursor_pos.
C12_UpAtOldest ==
    [][(KeyStep("Up") /\ history_index = 0) =>
          UNCHANGED <<history_index, line, cursor_pos>>]_vars

\* C13: Down while not navigating and Up with an empty history change none of
\* line, cursor_pos, history_index and current_line_backup.
C13_NavigationNoOp ==
    [][((KeyStep("Down") /\ history_index = NO_INDEX)
        \/ (KeyStep("Up") /\ history = <<>>)) =>
          UNCHANGED <<line, cursor_pos, history_index, current_line_backup,
                      scr, col>>]_vars

\* C13 witness: after a navigation had ended with a non-empty backup restored
\* and the line was changed, a Down was pressed and left the line alone.
C13_Witness ==
    /\ ev = "Down" /\ history_index = NO_INDEX /\ history # <<>>
    /\ line # current_line_backup /\ current_line_backup # <<>>

\* The word a Tab completes, as the code takes it: what follows the last
\* space of the line; and the part of the line before that word.
WordStart(l) ==
    LET sp == {i \in 1..Len(l) : l[i] = SPACE}
    IN  IF sp = {} THEN 1 ELSE (CHOOSE i \in sp : \A j \in sp : j <= i) + 1
TailWord(l) == SubSeq(l, WordStart(l), Len(l))
BeforeWord(l) == SubSeq(l, 1, WordStart(l) - 1)
Candidates(l) == find_completion(TailWord(l))

\* The current word at a cursor: what follows the last space before the
\* cursor, or the whole line when no space precedes the cursor.
CurrentWordStart(l, c) ==
    LET sp == {i \in 1..c : l[i] = SPACE}
    IN  IF sp = {} THEN 1 ELSE (CHOOSE i \in sp : \A j \in sp : j <= i) + 1
CurrentWord(l, c) == SubSeq(l, CurrentWordStart(l, c), Len(l))

C15_TabNoCandidate ==
    [][(KeyStep("Tab") /\ Candidates(line) = <<>>) =>
          /\ UNCHANGED <<line, cursor_pos>>
          /\ beeps' = 1]_vars

\* C16: a Tab whose previous key was not Tab and whose word has several
\* candidates changes neither line nor cursor_pos, writes nothing to the
\* screen and does not ring the bell.
C16_TabAmbiguousQuiet ==
    [][(KeyStep("Tab") /\ lst # TAB /\ Len(Candidates(line)) > 1) =>
          /\ UNCHANGED <<line, cursor_pos, scr, col>>
          /\ scrolled' = <<>>
          /\ beeps' = 0]_vars

\* The row that lists the candidates: each followed by four spaces.
ListRow(cands) == Cat([i \in 1..Len(cands) |-> cands[i] \o Rep(SPACE, 4)])

\* C17: a Tab directly after a Tab, with several candidates, prints all the
\* candidates in order on a fresh row, then the prompt and line on the next,
\* and leaves line and cursor_pos unchanged; and no Tab lists candidates
\* unless the key event before it, in the same session, was a Tab.
C17_DoubleTab ==
    [][/\ (KeyStep("Tab") /\ ev = "Tab" /\ Len(Candidates(line)) > 1) =>
             /\ UNCHANGED <<line, cursor_pos>>
             /\ Len(scrolled') = 2
             /\ scrolled'[1] = scr
             /\ scrolled'[2] = ListRow(Candidates(line))
             /\ scr' = PROMPT \o line
             /\ col' = Len(PROMPT) + cursor_pos
       /\ (KeyStep("Tab") /\ scrolled' # <<>>) => ev = "Tab"]_vars

\* The k-th smallest member of a set of numbers.
Nth(S, k) == CHOOSE i \in S : Cardinality({j \in S : j < i}) = k - 1

\* C18: find_completion(partial) returns the built-in commands that begin with
\* partial, all of them and in the order of the command list, when there is
\* one; otherwise the directory entries that begin with partial and do not
\* begin with '.', all of them; otherwise nothing.
C18_FindCompletion ==
    pc = "fc_done" =>
        LET p == fc_partial
            Begins(s) == Len(p) <= Len(s) /\ \A i \in 1..Len(p) : s[i] = p[i]
            B == {i \in 1..Len(commands) : Begins(commands[i])}
            D == {i \in 1..Len(DirEntries) :
                     Begins(DirEntries[i]) /\ DirEntries[i][1] # 46}
        IN  IF B # {}
            THEN /\ Len(fc_out) = Cardinality(B)
                 /\ \A k \in 1..Len(fc_out) : fc_out[k] = commands[Nth(B, k)]
            ELSE /\ Len(fc_out) = Cardinality(D)
                 /\ \A k \in 1..Len(fc_out) : fc_out[k] = DirEntries[Nth(D, k)]

\* C18 witness: "cl" begins no command; the directory's "clc" is returned and
\* its hidden ".cl" is not.
C18_Witness ==
    pc = "fc_done" /\ fc_partial = <<99, 108>> /\ fc_out = << <<99, 108, 99>> >>

\* C19: no key event changes history; a returned line that has a character
\* other than space and tab is appended once at the end, without its blanks
\* at either end, and nothing else in history changes; a returned line of
\* blanks only appends nothing.
C19_HistoryAppendOnly ==
    [][/\ pc = "reading" => history' = history
       /\ pc = "returned" =>
            LET WS == {SPACE, TAB}
                n == Len(history)
            IN  IF \A i \in 1..Len(result) : result[i] \in WS
                THEN history' = history
                ELSE /\ Len(history') = n + 1
                     /\ SubSeq(history', 1, n) = history
                     /\ LET t == history'[n + 1]
                        IN  /\ t # <<>>
                            /\ t[1] \notin WS /\ t[Len(t)] \notin WS
                            /\ \E a \in 0..(Len(result) - Len(t)) :
                                 /\ SubSeq(result, a + 1, a + Len(t)) = t
                                 /\ \A i \in 1..Len(result) :
                                      (i <= a \/ i > a + Len(t)) =>
                                          result[i] \in WS]_vars

\* C19 witness: " c " was submitted to an empty history, which now holds "c".
C19_Witness ==
    /\ pc = "reading" /\ ev = "none"
    /\ result = <<32, 99, 32>> /\ history = << <<99>> >>

\* C20: a key the editor does not support is ignored as one key: neither the
\* byte (or extended code) that no branch handles, nor any later byte of the
\* same key press, changes line or cursor_pos.
C20_UnsupportedIgnored ==
    [][(pc = "reading" /\ (ev' \in {"Ignored", "ExtOther"} \/ kbd # <<>>)) =>
          UNCHANGED <<line, cursor_pos>>]_vars

\* C21: the word a Tab hands to find_completion() is what follows the last
\* space before the cursor, or the whole line when no space precedes the
\* cursor; spaces at or after the cursor do not decide it.
C21_WordAtCursor ==
    [][KeyStep("Tab") =>
          word_to_complete(line) = CurrentWord(line, cursor_pos)]_vars

\* C22: a Tab pressed as the first key of a session never lists the
\* candidates.
C22_FirstTabNeverLists ==
    [][(KeyStep("Tab") /\ ev = "none") => scrolled' = <<>>]_vars

\* C23: every session starts with line empty, cursor_pos 0, no navigation
\* and an empty backup, however the session before it ended; so a Down as
\* first key changes nothing and an Up as first key recalls the newest entry
\* of history, which is the line just submitted when one was.
C23_SessionStartsFresh ==
    /\ [](pc = "reading" /\ ev = "none" =>
            /\ line = <<>> /\ cursor_pos = 0
            /\ history_index = NO_INDEX /\ current_line_backup = <<>>)
    /\ [][(KeyStep("Down") /\ ev = "none") =>
             UNCHANGED <<line, cursor_pos, history_index,
                         current_line_backup>>]_vars
    /\ [][(KeyStep("Up") /\ ev = "none" /\ history # <<>>) =>
             /\ history_index' = Len(history) - 1
             /\ line' = history[Len(history)]
             /\ cursor_pos' = Len(line')]_vars
    /\ [][(pc = "returned" /\ history' # history) =>
             /\ pc' = "reading" /\ ev' = "none"
             /\ history'[Len(history')] # <<>>
             /\ \E a \in 0..Len(result) :
                  SubSeq(result, a + 1, a + Len(history'[Len(history')]))
                      = history'[Len(history')]]_vars

\* C23 witness: "ls" was recalled and submitted while navigating at index 0;
\* the first key of the next session, Up, has recalled the entry just
\* appended, at index 1.
C23_Witness ==
    /\ ev = "Up" /\ nkeys = 3 /\ history_index = 1
    /\ history = << <<108, 115>>, <<108, 115>> >>
    /\ line = <<108, 115>> /\ result = <<108, 115>>

\* The argument of a "history <n>" line, and its value when it is written
\* with digits only and all but the last are zeros (0 otherwise: no other
\* numeral is between 1 and a count below ten).
HistoryArg == SubSeq(result, 9, Len(result))
IsHistoryN ==
    /\ Len(result) > 8
    /\ SubSeq(result, 1, 8) = S_history \o <<SPACE>>
    /\ LET a == HistoryArg
           b == IF a[1] = 45 THEN Tail(a) ELSE a
       IN  b # <<>> /\ \A i \in 1..Len(b) : b[i] \in 48..57
SmallValue(a) ==
    IF /\ \A i \in 1..Len(a) : a[i] \in 48..57
       /\ \A i \in 1..(Len(a) - 1) : a[i] = 48
    THEN a[Len(a)] - 48
    ELSE 0

\* C24: "history n" with a numeric n outside 1..count reports an error and
\* prints no entry; with n in 1..count it prints exactly the last n entries,
\* oldest first, and reports no error.
C24_HistoryN ==
    [][(pc = "returned" /\ IsHistoryN) =>
          LET n == SmallValue(HistoryArg)
              count == Len(history')
          IN  IF 1 <= n /\ n <= count
              THEN /\ cmd_err' = ""
                   /\ cmd_out' = [k \in 1..n |->
                                     <<count - n + k, history'[count - n + k]>>]
              ELSE /\ cmd_err' # ""
                   /\ cmd_out' = <<>>]_vars

C26_FileMatchesHistory ==
    files[start_dir] = history

====
